---- MODULE Spec2Model ----
(***************************************************************************)
(* qlive: account authentication by phone/SMS, sessions, and the live-room *)
(* lifecycle with head-to-head (PK) pairing.                               *)
(*                                                                         *)
(* The HTTP handlers (handler/account.go, handler/room.go) and the token   *)
(* lookup (controller/auth.go) are translated                              *)
(* from their code.  The collaborators they call through RoomInterface,    *)
(* AccountInterface and SMSCodeInterface, and the PK pairing operation of  *)
(* the real-time channel, have no implementation among the source files;   *)
(* they are modelled from the specification's description of the storage   *)
(* contract (InsertIfAbsent, ConditionalUpdate, Delete) and are named      *)
(* Room*, Account*, SMSCode* below.                                        *)
(*                                                                         *)
(* Strings are sequences of one-character strings: "" is << >>.            *)
(***************************************************************************)
EXTENDS Integers, Sequences, FiniteSets, Bags, TLC

VARIABLES
    rooms,      \* rooms collection: RoomID -> LiveRoom (a function on the stored IDs)
    accounts,   \* accounts collection: account ID -> Account
    activeUsers,\* active_users collection: the ActiveSession records [ID, Token]
    smsCodes,   \* sms_code collection: phone number -> VerificationCode
    login,      \* the bag of the LoginBySMS requests in flight: next call and locals
    profile,    \* the bag of the UpdateProfile requests in flight: caller ID and local account
    last        \* the handler step executed last: its request, the collaborator's error, the responses it wrote

vars == <<rooms, accounts, activeUsers, smsCodes, login, profile, last>>

accountVars == <<accounts, activeUsers, smsCodes, login, profile>>

EmptyString == << >>

\* The identifiers generateRoomID draws from (16 characters of base 36 in
\* the code; three of them here).
RoomIDs == {<<"r", "1">>, <<"r", "2">>, <<"r", "3">>}

\* The caller identities the authentication layer puts in the context.
Users == {<<"u", "1">>, <<"u", "2">>}

(***************************************************************************)
(* Errors.                                                                 *)
(***************************************************************************)
Nil == [type |-> "nil", Code |-> "", detail |-> ""]

ServerError(code) == [type |-> "ServerError", Code |-> code, detail |-> ""]

\* An error that is not a *errors.ServerError (a storage driver's error).
OtherError(detail) == [type |-> "error", Code |-> "", detail |-> detail]

WSErrorOK == 0

WSErrorUnknownMessage == 10001

WSErrorTokenInvalid == 10002

WSErrorNoPermission == 10003

WSErrorRoomNoExist == 10011

WSErrorRoomInPK == 10012

WSErrorRoomNotInPK == 10013

WSErrorToString(code) ==
    CASE code = WSErrorOK -> ""
      [] code = WSErrorUnknownMessage -> "unknown message"
      [] code = WSErrorTokenInvalid -> "token invalid"
      [] code = WSErrorNoPermission -> "no permission"
      [] code = WSErrorRoomNoExist -> "room no exist"
      [] code = WSErrorRoomInPK -> "room in PK"
      [] code = WSErrorRoomNotInPK -> "room not in PK"

\* A response written with c.JSON(status, body): the body's error code
\* ("" for a success body) and the detail it exposes.
HTTPResponse(status, code) == [status |-> status, code |-> code, detail |-> ""]

(***************************************************************************)
(* Live rooms.                                                             *)
(***************************************************************************)
LiveRoomStatusSingle == "single"

LiveRoomStatusPKInviting == "pk_inviting"

LiveRoomStatusPK == "pk_connected"

LiveRoomStatusClosed == "closed"

\* The capacity of the rooms collection (non-closed rooms).
RoomCapacity == 3

roomNameMaxLength == 100

Repeat(ch, n) == [i \in 1..n |-> ch]

\* Room names a request may carry: empty, two short ones, the longest valid
\* one and the shortest one that is too long.
RoomNames ==
    {EmptyString, <<"a">>, <<"b">>,
     Repeat("x", roomNameMaxLength), Repeat("x", roomNameMaxLength + 1)}

\* validateRoomName
validateRoomName(roomName) ==
    IF Len(roomName) = 0 \/ Len(roomName) > roomNameMaxLength THEN FALSE ELSE TRUE

\* generatePlayURL, with LiveHost and LiveHub fixed by configuration.
generatePlayURL(roomID) == <<"rtmp://", "host", "/", "hub", "/">> \o roomID

\* A mis-initialised room record: created already in PK state.
NewLiveRoomBadStatus(roomID, roomName, userID) ==
    [ID |-> roomID, Name |-> roomName, Creator |-> userID,
     PlayURL |-> generatePlayURL(roomID), RTCRoom |-> roomID,
     Status |-> LiveRoomStatusPK, PartnerRoomID |-> EmptyString]

\* A room record created with the neighbouring status constant.
NewLiveRoomInviting(roomID, roomName, userID) ==
    [ID |-> roomID, Name |-> roomName, Creator |-> userID,
     PlayURL |-> generatePlayURL(roomID), RTCRoom |-> roomID,
     Status |-> LiveRoomStatusPKInviting, PartnerRoomID |-> EmptyString]

\* The room record CreateRoom builds; PartnerRoomID keeps its zero value.
NewLiveRoom(roomID, roomName, userID) ==
    [ID |-> roomID, Name |-> roomName, Creator |-> userID,
     PlayURL |-> generatePlayURL(roomID), RTCRoom |-> roomID,
     Status |-> LiveRoomStatusSingle, PartnerRoomID |-> EmptyString]

LiveRoomIDs(rs) == {r \in DOMAIN rs : rs[r].Status # LiveRoomStatusClosed}

NameHeld(rs, name) == \E r \in LiveRoomIDs(rs) : rs[r].Name = name

\* RoomInterface.CreateRoom: one atomic insert guarded by the uniqueness of
\* the name among non-closed rooms, the capacity and the uniqueness of the ID.
RoomCreateRoom(rs, room) ==
    IF NameHeld(rs, room.Name)
    THEN [err |-> ServerError("RoomNameUsed"), rooms |-> rs]
    ELSE IF Cardinality(LiveRoomIDs(rs)) >= RoomCapacity
    THEN [err |-> ServerError("TooManyRooms"), rooms |-> rs]
    ELSE IF room.ID \in DOMAIN rs
    THEN [err |-> OtherError("duplicate key"), rooms |-> rs]
    ELSE [err |-> Nil, rooms |-> rs @@ (room.ID :> room)]

\* A close that forgets the partner of the closed room.
RoomCloseRoomKeepPartner(rs, userID, roomID) ==
    IF roomID \notin DOMAIN rs
    THEN [err |-> ServerError("RoomNotFound"), rooms |-> rs]
    ELSE IF rs[roomID].Creator # userID
    THEN [err |-> ServerError("NoPermission"), rooms |-> rs]
    ELSE [err |-> Nil,
          rooms |-> [rs EXCEPT ![roomID].Status = LiveRoomStatusClosed,
                               ![roomID].PartnerRoomID = EmptyString]]

\* RoomInterface.CloseRoom: only the creator closes; the room becomes Closed
\* and, in the same update, its PK partner reverts to Single.
RoomCloseRoom(rs, userID, roomID) ==
    IF roomID \notin DOMAIN rs
    THEN [err |-> ServerError("RoomNotFound"), rooms |-> rs]
    ELSE IF rs[roomID].Creator # userID
    THEN [err |-> ServerError("NoPermission"), rooms |-> rs]
    ELSE [err |-> Nil,
          rooms |-> [r \in DOMAIN rs |->
              IF r = roomID
              THEN [rs[r] EXCEPT !.Status = LiveRoomStatusClosed,
                                 !.PartnerRoomID = EmptyString]
              ELSE IF r = rs[roomID].PartnerRoomID
              THEN [rs[r] EXCEPT !.Status = LiveRoomStatusSingle,
                                 !.PartnerRoomID = EmptyString]
              ELSE rs[r]]]

\* ConditionalUpdate of one room record: Single -> PKConnected with a partner.
PairOne(rs, roomID, partnerID) ==
    IF roomID \in DOMAIN rs /\ rs[roomID].Status = LiveRoomStatusSingle
    THEN [matched |-> TRUE,
          rooms |-> [rs EXCEPT ![roomID].Status = LiveRoomStatusPK,
                               ![roomID].PartnerRoomID = partnerID]]
    ELSE [matched |-> FALSE, rooms |-> rs]

\* A pairing that reads the target's status but updates it unconditionally.
RoomRequestPKUnguarded(rs, callerRoomID, targetRoomID) ==
    IF callerRoomID \notin LiveRoomIDs(rs) \/ targetRoomID \notin LiveRoomIDs(rs)
    THEN [code |-> WSErrorRoomNoExist, rooms |-> rs]
    ELSE IF rs[callerRoomID].Status # LiveRoomStatusSingle
    THEN [code |-> WSErrorRoomInPK, rooms |-> rs]
    ELSE [code |-> WSErrorOK,
          rooms |-> [rs EXCEPT ![callerRoomID].Status = LiveRoomStatusPK,
                               ![callerRoomID].PartnerRoomID = targetRoomID,
                               ![targetRoomID].Status = LiveRoomStatusPK,
                               ![targetRoomID].PartnerRoomID = callerRoomID]]

\* A pairing that checks both rooms with one read and then writes both.
RoomRequestPKReadThenWrite(rs, callerRoomID, targetRoomID) ==
    IF callerRoomID \notin LiveRoomIDs(rs) \/ targetRoomID \notin LiveRoomIDs(rs)
    THEN [code |-> WSErrorRoomNoExist, rooms |-> rs]
    ELSE IF rs[callerRoomID].Status # LiveRoomStatusSingle
            \/ rs[targetRoomID].Status # LiveRoomStatusSingle
    THEN [code |-> WSErrorRoomInPK, rooms |-> rs]
    ELSE [code |-> WSErrorOK,
          rooms |-> [r \in DOMAIN rs |->
              IF r = targetRoomID
              THEN [rs[r] EXCEPT !.Status = LiveRoomStatusPK,
                                 !.PartnerRoomID = callerRoomID]
              ELSE IF r = callerRoomID
              THEN [rs[r] EXCEPT !.Status = LiveRoomStatusPK,
                                 !.PartnerRoomID = targetRoomID]
              ELSE rs[r]]]

\* The pairing transition: both records are updated conditionally on
\* Status = Single inside one transaction; when either update does not match
\* nothing is written.
RoomRequestPK(rs, callerRoomID, targetRoomID) ==
    IF callerRoomID \notin LiveRoomIDs(rs) \/ targetRoomID \notin LiveRoomIDs(rs)
    THEN [code |-> WSErrorRoomNoExist, rooms |-> rs]
    ELSE LET first == PairOne(rs, callerRoomID, targetRoomID)
             second == PairOne(first.rooms, targetRoomID, callerRoomID)
         IN IF first.matched /\ second.matched
            THEN [code |-> WSErrorOK, rooms |-> second.rooms]
            ELSE [code |-> WSErrorRoomInPK, rooms |-> rs]

\* What a handler step leaves in last: the handler (op), the collaborator
\* it called (call), the request's arguments, the collaborator's error and
\* the responses the step wrote.  target is the second room of the request:
\* RequestPK's target, and for CloseRoom the partner the closed room had when
\* the request arrived.  before is what the step found: for Send the record
\* it replaced, for ListCanPKRooms the rooms listed, for AccountLogin, Logout
\* and GetIDByToken the call on the sessions that preceded it, if one did;
\* for Logout token is the token of the session it deleted.
NoStep ==
    [op |-> "", call |-> "", user |-> EmptyString,
     room |-> EmptyString, name |-> EmptyString, target |-> EmptyString,
     phone |-> EmptyString, code |-> EmptyString, token |-> EmptyString,
     nickname |-> EmptyString, gender |-> EmptyString,
     before |-> << >>, err |-> Nil, resp |-> << >>]

Step(op, user, room, name, target, err, resp) ==
    [NoStep EXCEPT !.op = op, !.user = user, !.room = room, !.name = name,
                   !.target = target, !.err = err, !.resp = resp]

\* The partner a room had when a request naming it arrived ("" when none).
PartnerOf(rs, roomID) ==
    IF roomID \in DOMAIN rs THEN rs[roomID].PartnerRoomID ELSE EmptyString

\* CreateRoom's switch on the collaborator's error, with the default that
\* the unclassified branch gives.
CreateRoomErrorResponseNoCase(err) == HTTPResponse(500, "Internal")

\* CreateRoom's switch on the collaborator's error.
CreateRoomErrorResponse(err) ==
    IF err.type # "ServerError" THEN HTTPResponse(500, "Internal")
    ELSE CASE err.Code = "RoomNameUsed" -> HTTPResponse(409, "RoomNameUsed")
           [] err.Code = "TooManyRooms" -> HTTPResponse(503, "TooManyRooms")
           [] OTHER -> HTTPResponse(500, "Internal")

\* RoomHandler.CreateRoom, the request body bound to roomName; roomID is
\* what generateRoomID drew.
CreateRoom(userID, roomName, roomID) ==
    /\ IF ~validateRoomName(roomName)
       THEN /\ rooms' = rooms
            /\ last' = Step("CreateRoom", EmptyString, EmptyString, roomName, EmptyString, Nil,
                             <<HTTPResponse(400, "InvalidRoomName")>>)
       ELSE LET room == NewLiveRoom(roomID, roomName, userID)
                res == RoomCreateRoom(rooms, room)
            IN /\ rooms' = res.rooms
               /\ last' = Step("CreateRoom", EmptyString, EmptyString, roomName, EmptyString, res.err,
                                IF res.err # Nil
                                THEN <<CreateRoomErrorResponse(res.err)>>
                                ELSE <<HTTPResponse(200, "")>>)
    /\ UNCHANGED accountVars

\* CloseRoom's switch on the collaborator's error.
CloseRoomErrorResponse(err) ==
    IF err.type # "ServerError" THEN HTTPResponse(500, "Internal")
    ELSE CASE err.Code = "RoomNotFound" -> HTTPResponse(404, "NoSuchRoom")
           [] OTHER -> HTTPResponse(500, "Internal")

\* RoomHandler.CloseRoom; on success the handler writes no body.
CloseRoom(userID, roomID) ==
    /\ LET res == RoomCloseRoom(rooms, userID, roomID)
       IN /\ rooms' = res.rooms
          /\ last' = Step("CloseRoom", userID, roomID, EmptyString, PartnerOf(rooms, roomID), res.err,
                           IF res.err # Nil
                           THEN <<CloseRoomErrorResponse(res.err)>>
                           ELSE << >>)
    /\ UNCHANGED accountVars

\* A pairing request on the real-time channel, answered with a WS error code.
RequestPK(callerRoomID, targetRoomID) ==
    /\ LET res == RoomRequestPK(rooms, callerRoomID, targetRoomID)
       IN /\ rooms' = res.rooms
          /\ last' = Step("RequestPK", EmptyString, callerRoomID, EmptyString, targetRoomID,
                           IF res.code = WSErrorOK THEN Nil
                           ELSE OtherError(WSErrorToString(res.code)),
                           <<HTTPResponse(res.code, WSErrorToString(res.code))>>)
    /\ UNCHANGED accountVars

\* RoomInterface.ListPKRooms: the Single rooms the caller did not create.
RoomListPKRooms(rs, userID) ==
    {r \in DOMAIN rs : rs[r].Status = LiveRoomStatusSingle /\ rs[r].Creator # userID}

\* RoomHandler.ListCanPKRooms: builds the list of ID and Name from the rooms
\* found and returns; no c.JSON is called.
ListCanPKRooms(userID) ==
    /\ LET found == RoomListPKRooms(rooms, userID)
           resp == {[ID |-> rooms[r].ID, Name |-> rooms[r].Name] : r \in found}
       IN last' = [Step("ListCanPKRooms", userID, EmptyString, EmptyString, EmptyString,
                        Nil, << >>)
                   EXCEPT !.before = <<resp>>]
    /\ rooms' = rooms
    /\ UNCHANGED accountVars

InitRoom ==
    /\ rooms = << >>
    /\ last = NoStep

NextRoom ==
    \/ \E u \in Users, n \in RoomNames, r \in RoomIDs : CreateRoom(u, n, r)
    \/ \E u \in Users, r \in RoomIDs : CloseRoom(u, r)
    \/ \E a \in RoomIDs, b \in RoomIDs : RequestPK(a, b)
    \/ \E u \in Users : ListCanPKRooms(u)

(***************************************************************************)
(* Room claims (checked under SpecRoom).                                   *)
(***************************************************************************)
Paired(a, b) ==
    /\ a \in DOMAIN rooms /\ b \in DOMAIN rooms
    /\ rooms[a].Status = LiveRoomStatusPK /\ rooms[a].PartnerRoomID = b
    /\ rooms[b].Status = LiveRoomStatusPK /\ rooms[b].PartnerRoomID = a

\* C1: no two non-closed rooms ever share a Name, and a CreateRoom whose name
\* is held by a non-closed room answers RoomNameUsed (409) and stores nothing.
C1_NameUniqueAmongLive ==
    /\ [](\A a \in LiveRoomIDs(rooms), b \in LiveRoomIDs(rooms) :
            a # b => rooms[a].Name # rooms[b].Name)
    /\ [][(last'.op = "CreateRoom" /\ NameHeld(rooms, last'.name))
            => (rooms' = rooms /\ last'.resp = <<HTTPResponse(409, "RoomNameUsed")>>)]_vars

\* A CreateRoom was refused for its name while a closed room and a live room
\* both carry that name (the name was released once and taken again).
C1_Witness ==
    /\ last.op = "CreateRoom"
    /\ last.resp = <<HTTPResponse(409, "RoomNameUsed")>>
    /\ \E a \in DOMAIN rooms, b \in DOMAIN rooms :
          /\ rooms[a].Name = last.name /\ rooms[a].Status = LiveRoomStatusClosed
          /\ rooms[b].Name = last.name /\ rooms[b].Status # LiveRoomStatusClosed

\* C2: PartnerRoomID is set exactly on PKConnected rooms, and it is
\* symmetric: the partner is a stored PKConnected room that points back.
C2_PartnerSymmetric ==
    \A a \in DOMAIN rooms :
        /\ (rooms[a].PartnerRoomID # EmptyString) <=> (rooms[a].Status = LiveRoomStatusPK)
        /\ rooms[a].PartnerRoomID # EmptyString => Paired(a, rooms[a].PartnerRoomID)

\* A pair exists beside a room that was closed.
C2_Witness ==
    \E a \in DOMAIN rooms, b \in DOMAIN rooms, c \in DOMAIN rooms :
        a # b /\ Paired(a, b) /\ rooms[c].Status = LiveRoomStatusClosed

\* C3: a RequestPK succeeds only when caller and target were both Single, and
\* then pairs exactly those two; a failed one changes no room; a Single caller
\* asking for a live target that is not Single is answered RoomInPK; and no
\* two rooms ever name the same partner.
C3_PairingIsConditional ==
    /\ [][last'.op = "RequestPK" =>
            LET c == last'.room
                t == last'.target
            IN /\ IF last'.err = Nil
                  THEN /\ c \in DOMAIN rooms /\ t \in DOMAIN rooms
                       /\ rooms[c].Status = LiveRoomStatusSingle
                       /\ rooms[t].Status = LiveRoomStatusSingle
                       /\ rooms'[c].Status = LiveRoomStatusPK /\ rooms'[c].PartnerRoomID = t
                       /\ rooms'[t].Status = LiveRoomStatusPK /\ rooms'[t].PartnerRoomID = c
                       /\ \A r \in DOMAIN rooms \ {c, t} : rooms'[r] = rooms[r]
                  ELSE rooms' = rooms
               /\ (/\ c \in DOMAIN rooms /\ rooms[c].Status = LiveRoomStatusSingle
                   /\ t \in LiveRoomIDs(rooms) /\ rooms[t].Status # LiveRoomStatusSingle)
                  => last'.resp = <<HTTPResponse(WSErrorRoomInPK, "room in PK")>>]_vars
    /\ [](\A a \in DOMAIN rooms, b \in DOMAIN rooms :
            (a # b /\ rooms[a].PartnerRoomID # EmptyString)
                => rooms[a].PartnerRoomID # rooms[b].PartnerRoomID)

\* The loser of a race for a target: a Single caller was answered RoomInPK
\* because the target is paired with another room.
C3_Witness ==
    /\ last.op = "RequestPK"
    /\ last.resp = <<HTTPResponse(WSErrorRoomInPK, "room in PK")>>
    /\ last.room \in DOMAIN rooms /\ last.target \in DOMAIN rooms
    /\ last.room # last.target
    /\ rooms[last.room].Status = LiveRoomStatusSingle
    /\ rooms[last.target].Status = LiveRoomStatusPK
    /\ rooms[last.target].PartnerRoomID # last.room

\* C4: no room's PartnerRoomID ever names a Closed room, and when the creator
\* closes a PKConnected room, that room is Closed and its partner is Single
\* with PartnerRoomID cleared after the one step.
C4_ClosePairAtomic ==
    /\ [](\A a \in DOMAIN rooms :
            rooms[a].PartnerRoomID # EmptyString =>
                /\ rooms[a].PartnerRoomID \in DOMAIN rooms
                /\ rooms[rooms[a].PartnerRoomID].Status # LiveRoomStatusClosed)
    /\ [][(/\ last'.op = "CloseRoom"
           /\ last'.room \in DOMAIN rooms
           /\ rooms[last'.room].Creator = last'.user
           /\ rooms[last'.room].Status = LiveRoomStatusPK)
          => LET a == last'.room
                 b == rooms[a].PartnerRoomID
             IN /\ rooms'[a].Status = LiveRoomStatusClosed
                /\ rooms'[b].Status = LiveRoomStatusSingle
                /\ rooms'[b].PartnerRoomID = EmptyString]_vars

\* The creator has just closed a room that had a partner.
C4_Witness ==
    /\ last.op = "CloseRoom" /\ last.err = Nil
    /\ last.target # EmptyString
    /\ rooms[last.room].Status = LiveRoomStatusClosed
    /\ rooms[last.target].Status = LiveRoomStatusSingle

\* C5: a CloseRoom by a caller who is not the room's Creator is answered
\* NoPermission (403) and changes no room.
C5_NonCreatorCloseNoPermission ==
    [][(/\ last'.op = "CloseRoom"
        /\ last'.room \in DOMAIN rooms
        /\ rooms[last'.room].Creator # last'.user)
       => (rooms' = rooms /\ last'.resp = <<HTTPResponse(403, "NoPermission")>>)]_vars

\* C18: a CreateRoom with a valid name that no live room holds, below the
\* capacity and with identifiers left to draw, stores the room: a conflict
\* on the drawn ID does not make it fail.
C18_IDConflictRetried ==
    [][(/\ last'.op = "CreateRoom"
        /\ validateRoomName(last'.name)
        /\ ~NameHeld(rooms, last'.name)
        /\ Cardinality(LiveRoomIDs(rooms)) < RoomCapacity
        /\ DOMAIN rooms # RoomIDs)
       => /\ last'.err = Nil
          /\ \E r \in DOMAIN rooms' \ DOMAIN rooms : rooms'[r].Name = last'.name]_vars

\* C19: every invocation of a room handler writes exactly one response, and
\* one that reports an error changes no room.
C19_ExactlyOneResponse ==
    [][last'.op \in {"CreateRoom", "CloseRoom", "ListCanPKRooms"} =>
          /\ Len(last'.resp) = 1
          /\ last'.resp[1].status # 200 => rooms' = rooms]_vars

C12_StatusTransitions ==
    [][/\ \A r \in DOMAIN rooms :
             /\ r \in DOMAIN rooms'
             /\ rooms'[r].Status # rooms[r].Status =>
                  \/ /\ rooms[r].Status = LiveRoomStatusSingle
                     /\ rooms'[r].Status = LiveRoomStatusPK
                     /\ last'.op = "RequestPK" /\ last'.err = Nil
                     /\ r \in {last'.room, last'.target}
                  \/ /\ rooms[r].Status = LiveRoomStatusPK
                     /\ rooms'[r].Status = LiveRoomStatusSingle
                     /\ last'.op = "CloseRoom" /\ last'.target = r
                  \/ /\ rooms[r].Status \in {LiveRoomStatusSingle, LiveRoomStatusPK}
                     /\ rooms'[r].Status = LiveRoomStatusClosed
                     /\ last'.op = "CloseRoom" /\ last'.room = r
             /\ rooms[r].Status = LiveRoomStatusClosed =>
                  /\ rooms'[r].Status = LiveRoomStatusClosed
                  /\ rooms'[r].PartnerRoomID = rooms[r].PartnerRoomID
       /\ \A r \in DOMAIN rooms' \ DOMAIN rooms :
             /\ rooms'[r].Status = LiveRoomStatusSingle
             /\ last'.op = "CreateRoom"]_vars

\* The creator closed a Closed room once more, beside two rooms in PK: the
\* room is still Closed with no partner, and the pair is untouched.
C12_Witness ==
    /\ last.op = "CloseRoom" /\ last.err = Nil
    /\ last.target = EmptyString
    /\ rooms[last.room].Status = LiveRoomStatusClosed
    /\ rooms[last.room].Creator = last.user
    /\ \E a \in DOMAIN rooms, b \in DOMAIN rooms : a # b /\ Paired(a, b)
    /\ Cardinality(DOMAIN rooms) = 3

(***************************************************************************)
(* Accounts, verification codes and sessions.                              *)
(***************************************************************************)
MaxTokens == 2

MaxRequests == 2

\* The minimum interval between two sends to one phone, and the lifetime of
\* a code, in clock ticks.
ResendWindow == 1

CodeTTL == 2

\* A VerificationCode is stored as [Code, Age, Used]: Age is the clock's time
\* minus the record's SentAt.  Both comparisons made with SentAt (resend
\* window, expiry) read that difference only, and neither changes once it
\* has reached MaxAge, where the count stops: the clock itself is unbounded.
MaxAge == IF ResendWindow > CodeTTL THEN ResendWindow ELSE CodeTTL

Digits == {"0", "1", "2", "3", "4", "5", "6", "7", "8", "9"}

\* validatePhoneNumber: regexp `1[3-9][0-9]{9}` with MatchString, which looks
\* for a match anywhere in the string.
validatePhoneNumber(phoneNumber) ==
    \E i \in 1..(Len(phoneNumber) - 10) :
        /\ phoneNumber[i] = "1"
        /\ phoneNumber[i + 1] \in Digits \ {"0", "1", "2"}
        /\ \A j \in 2..10 : phoneNumber[i + j] \in Digits

\* The phone number of an account that may exist from the start.
EarlierPhoneNumber == <<"1", "5", "9", "0", "0", "0", "0", "0", "0", "0", "2">>

\* The phone numbers a request may carry: a well-formed one and a malformed
\* one.
PhoneNumbers ==
    {<<"1", "3", "8", "0", "0", "0", "0", "0", "0", "0", "1">>,
     <<"1", "2", "3", "4", "5">>}

\* Strings that contain a well-formed number with a character before it or
\* after it.
PaddedPhoneNumbers ==
    {<<"x">> \o p : p \in {q \in PhoneNumbers : validatePhoneNumber(q)}}
        \cup {p \o <<"0">> : p \in {q \in PhoneNumbers : validatePhoneNumber(q)}}

\* The values of the query parameter phone_number, the empty one included.
SendPhoneNumbers == PhoneNumbers \cup PaddedPhoneNumbers \cup {EmptyString}

\* The phone numbers a login presents: LoginBySMS does not look at the
\* format, and a malformed number is one more number without a stored code.
LoginPhoneNumbers == {p \in PhoneNumbers : validatePhoneNumber(p)}

\* The codes the SMS collaborator generates and a login may present.
SMSCodes == {<<"c", "1">>, <<"c", "2">>}

\* The tokens AccountLogin generates.
Tokens == {<<"t", i>> : i \in 1..MaxTokens}

\* The step before the present one, when it was a call on the sessions
\* (AccountLogin, AccountLogout): its handler, account and token.
Preceding ==
    IF last.call \in {"AccountLogin", "AccountLogout"}
    THEN <<[op |-> last.op, user |-> last.user, token |-> last.token]>>
    ELSE << >>

AccountStep(op, call, user, phone, code, token, before, err, resp) ==
    [NoStep EXCEPT !.op = op, !.call = call, !.user = user,
                   !.phone = phone, !.code = code, !.token = token,
                   !.before = before, !.err = err, !.resp = resp]

\* Whether a send to phoneNumber falls in the resend window of the stored
\* record.
InResendWindow(codes, phoneNumber) ==
    phoneNumber \in DOMAIN codes /\ codes[phoneNumber].Age < ResendWindow

\* Whether smsCode is the stored, unused and unexpired code of phoneNumber.
CodeValid(codes, phoneNumber, smsCode) ==
    /\ phoneNumber \in DOMAIN codes
    /\ ~codes[phoneNumber].Used
    /\ codes[phoneNumber].Code = smsCode
    /\ codes[phoneNumber].Age < CodeTTL

\* The codes a send to phoneNumber may generate: a new code, different from
\* the one stored for the phone.
NewSMSCodes(codes, phoneNumber) ==
    {c \in SMSCodes : phoneNumber \in DOMAIN codes => c # codes[phoneNumber].Code}

\* The failures of the collaborators behind Send: of the storage, before
\* anything is read or written, and of the SMS gateway, after the code was
\* stored.  Neither is a *errors.ServerError.
StorageFailure == OtherError("storage: connection refused")

GatewayFailure == OtherError("gateway: timeout")

\* What the collaborators of one Send do: Nil when both work.
SendOutcomes == {Nil, StorageFailure, GatewayFailure}

\* SMSCodeInterface.Send: one atomic check-and-write keyed by the phone; the
\* new record replaces the previous one; then the code is dispatched.
SMSCodeSend(codes, phoneNumber, smsCode, outcome) ==
    IF outcome = StorageFailure
    THEN [err |-> StorageFailure, codes |-> codes]
    ELSE IF InResendWindow(codes, phoneNumber)
    THEN [err |-> ServerError("SMSSendTooFrequent"), codes |-> codes]
    ELSE [err |-> outcome,
          codes |-> [p \in DOMAIN codes \cup {phoneNumber} |->
                        IF p = phoneNumber
                        THEN [Code |-> smsCode, Age |-> 0, Used |-> FALSE]
                        ELSE codes[p]]]

\* SMSCodeInterface.Validate: one atomic conditional update that consumes
\* the code; the record stays, so that the resend window is still measured
\* from its SentAt.
SMSCodeValidate(codes, phoneNumber, smsCode) ==
    IF CodeValid(codes, phoneNumber, smsCode)
    THEN [err |-> Nil, codes |-> [codes EXCEPT ![phoneNumber].Used = TRUE]]
    ELSE [err |-> ServerError("InvalidCode"), codes |-> codes]

\* A SendSMSCode without the case for TooFrequent.
SendSMSCodeErrorResponseNoCase(err) ==
    [status |-> 500, code |-> err.Code, detail |-> err.detail]

\* SendSMSCode's handling of the collaborator's error; any error but
\* TooFrequent is written to the caller as it is.
SendSMSCodeErrorResponse(err) ==
    IF err.type = "ServerError" /\ err.Code = "SMSSendTooFrequent"
    THEN HTTPResponse(429, "SMSSendTooFrequent")
    ELSE [status |-> 500, code |-> err.Code, detail |-> err.detail]

\* AccountHandler.SendSMSCode with the query parameter phone_number present;
\* smsCode is the code the collaborator generates, outcome what its own
\* collaborators do.
SendSMSCode(phoneNumber, smsCode, outcome) ==
    /\ IF ~validatePhoneNumber(phoneNumber)
       THEN /\ smsCodes' = smsCodes
            /\ last' = AccountStep("SendSMSCode", "", EmptyString, phoneNumber,
                                   EmptyString, EmptyString, << >>, Nil,
                                   <<HTTPResponse(400, "InvalidPhoneNumber")>>)
       ELSE /\ smsCode \in NewSMSCodes(smsCodes, phoneNumber)
            /\ LET res == SMSCodeSend(smsCodes, phoneNumber, smsCode, outcome)
               IN /\ smsCodes' = res.codes
                  /\ last' = AccountStep("SendSMSCode", "Send", EmptyString, phoneNumber,
                                         IF res.codes # smsCodes THEN smsCode ELSE EmptyString,
                                         EmptyString,
                                         IF res.codes # smsCodes /\ phoneNumber \in DOMAIN smsCodes
                                         THEN <<smsCodes[phoneNumber]>> ELSE << >>,
                                         res.err,
                                         IF res.err # Nil
                                         THEN <<SendSMSCodeErrorResponse(res.err)>>
                                         ELSE <<HTTPResponse(200, "")>>)
    /\ UNCHANGED <<rooms, profile, accounts, activeUsers, login>>

\* The clock of the storage advances by one tick.
Tick ==
    /\ \E p \in DOMAIN smsCodes : smsCodes[p].Age < MaxAge
    /\ smsCodes' = [p \in DOMAIN smsCodes |->
                      IF smsCodes[p].Age < MaxAge
                      THEN [smsCodes[p] EXCEPT !.Age = @ + 1]
                      ELSE smsCodes[p]]
    /\ last' = AccountStep("Tick", "", EmptyString, EmptyString, EmptyString, EmptyString,
                           << >>, Nil, << >>)
    /\ UNCHANGED <<rooms, profile, accounts, activeUsers, login>>

\* A LoginBySMS in flight: the call it makes next and its local variables.
\* login is the bag of the requests in flight; a request that has returned
\* is no longer in it.
Request(pc, phoneNumber, id) == [pc |-> pc, phone |-> phoneNumber, account |-> id]

\* The requests in flight with r moved on to next.
Moved(r, next) == (login (-) SetToBag({r})) (+) next

AccountOfPhone(accs, phoneNumber) == {a \in DOMAIN accs : accs[a].PhoneNumber = phoneNumber}

\* The account record LoginBySMS builds for a first login.
NewAccount(id, phoneNumber) ==
    [ID |-> id, PhoneNumber |-> phoneNumber, Nickname |-> EmptyString, Gender |-> EmptyString]

\* An insert that checks the ID alone.
AccountCreateAccountByIDOnly(accs, account) ==
    IF account.ID \in DOMAIN accs
    THEN [err |-> OtherError("duplicate key"), accounts |-> accs]
    ELSE [err |-> Nil, accounts |-> accs @@ (account.ID :> account)]

\* AccountInterface.CreateAccount: InsertIfAbsent with ID and PhoneNumber as
\* the unique fields.
AccountCreateAccount(accs, account) ==
    IF account.ID \in DOMAIN accs \/ AccountOfPhone(accs, account.PhoneNumber) # {}
    THEN [err |-> OtherError("duplicate key"), accounts |-> accs]
    ELSE [err |-> Nil, accounts |-> accs @@ (account.ID :> account)]

\* The tokens a login may be issued: random, and not the token of a session
\* that exists.
FreshTokens(active) == {t \in Tokens : \A u \in active : u.Token # t}

\* The tokens AccountLogin may draw for an account; a refused login issues
\* none, and one value stands for its draw.
DrawnTokens(active, id) ==
    IF \E u \in active : u.ID = id
    THEN {CHOOSE t \in Tokens : TRUE}
    ELSE FreshTokens(active)

\* AccountInterface.AccountLogin: InsertIfAbsent of the ActiveSession keyed
\* by the account.
AccountAccountLogin(active, id, token) ==
    IF \E u \in active : u.ID = id
    THEN [err |-> ServerError("UserLoggedin"), token |-> EmptyString, active |-> active]
    ELSE [err |-> Nil, token |-> token, active |-> active \cup {[ID |-> id, Token |-> token]}]

\* A delete whose filter matches every session.
AccountAccountLogoutNoFilter(active, id) == [err |-> Nil, active |-> {}]

\* AccountInterface.AccountLogout: deletes the session; no error when there
\* is none.
AccountAccountLogout(active, id) ==
    [err |-> Nil, active |-> {u \in active : u.ID # id}]

\* A LoginBySMS that goes on after a failed validation.
LoginAfterValidateNoReturn(err, phoneNumber) ==
    SetToBag({Request("GetAccountByPhoneNumber", phoneNumber, EmptyString)})

\* Where LoginBySMS stands after SMSCode.Validate: it returns on an error.
LoginAfterValidate(err, phoneNumber) ==
    IF err # Nil THEN EmptyBag
    ELSE SetToBag({Request("GetAccountByPhoneNumber", phoneNumber, EmptyString)})

\* LoginBySMS, first call: SMSCode.Validate.  A failed validation is answered
\* WrongSMSCode.  At most MaxRequests requests are in flight together.
LoginValidate(phoneNumber, smsCode) ==
    /\ LET res == SMSCodeValidate(smsCodes, phoneNumber, smsCode)
       IN /\ BagCardinality(login (+) LoginAfterValidate(res.err, phoneNumber)) <= MaxRequests
          /\ smsCodes' = res.codes
          /\ login' = login (+) LoginAfterValidate(res.err, phoneNumber)
          /\ last' = AccountStep("Login", "Validate", EmptyString, phoneNumber,
                                 smsCode, EmptyString, << >>, res.err,
                                 IF res.err # Nil
                                 THEN <<HTTPResponse(401, "WrongSMSCode")>>
                                 ELSE << >>)
    /\ UNCHANGED <<rooms, profile, accounts, activeUsers>>

\* LoginBySMS, second call: GetAccountByPhoneNumber; "not found" leads to
\* the creation of an account.
LoginGetAccount(r) ==
    /\ BagIn(r, login)
    /\ r.pc = "GetAccountByPhoneNumber"
    /\ LET found == AccountOfPhone(accounts, r.phone)
       IN IF found = {}
          THEN /\ login' = Moved(r, SetToBag({Request("CreateAccount", r.phone, EmptyString)}))
               /\ last' = AccountStep("Login", "GetAccountByPhoneNumber", EmptyString,
                                      r.phone, EmptyString, EmptyString, << >>,
                                      OtherError("not found"), << >>)
          ELSE \E a \in found :
               /\ login' = Moved(r, SetToBag({Request("AccountLogin", EmptyString, a)}))
               /\ last' = AccountStep("Login", "GetAccountByPhoneNumber", a,
                                      r.phone, EmptyString, EmptyString, << >>,
                                      Nil, << >>)
    /\ UNCHANGED <<rooms, profile, accounts, activeUsers, smsCodes>>

\* LoginBySMS, third call: CreateAccount with the ID generateUserID drew.
LoginCreateAccount(r, id) ==
    /\ BagIn(r, login)
    /\ r.pc = "CreateAccount"
    /\ LET newAccount == NewAccount(id, r.phone)
           res == AccountCreateAccount(accounts, newAccount)
       IN /\ accounts' = res.accounts
          /\ IF res.err # Nil
             THEN /\ login' = Moved(r, EmptyBag)
                  /\ last' = AccountStep("Login", "CreateAccount", id, r.phone,
                                         EmptyString, EmptyString, << >>, res.err,
                                         <<HTTPResponse(401, "Unauthorized")>>)
             ELSE /\ login' = Moved(r, SetToBag({Request("AccountLogin", EmptyString, id)}))
                  /\ last' = AccountStep("Login", "CreateAccount", id, r.phone,
                                         EmptyString, EmptyString, << >>, Nil, << >>)
    /\ UNCHANGED <<rooms, profile, activeUsers, smsCodes>>

\* The token of the session of an account ("" when it has none).
TokenOf(active, id) ==
    IF \E u \in active : u.ID = id
    THEN (CHOOSE u \in active : u.ID = id).Token
    ELSE EmptyString

\* A LoginBySMS that answers a failed AccountLogin as a success, with the
\* zero value of the token.
LoginErrorResponseNoReturn(err) == [status |-> 200, code |-> "", detail |-> EmptyString]

\* A LoginBySMS without the case for UserLoggedin.
LoginErrorResponseNoCase(err) == HTTPResponse(401, "Unauthorized")

\* LoginBySMS's handling of AccountLogin's error.
LoginErrorResponse(err) ==
    IF err.type = "ServerError" /\ err.Code = "UserLoggedin"
    THEN HTTPResponse(401, "AlreadyLoggedin")
    ELSE HTTPResponse(401, "Unauthorized")

\* The body of a successful login: the token, in the field detail.
LoginResponse(token) == [status |-> 200, code |-> "", detail |-> token]

\* LoginBySMS, last call: AccountLogin, then the response with the token.
LoginAccountLogin(r, token) ==
    /\ BagIn(r, login)
    /\ r.pc = "AccountLogin"
    /\ token \in DrawnTokens(activeUsers, r.account)
    /\ LET id == r.account
           res == AccountAccountLogin(activeUsers, id, token)
       IN /\ activeUsers' = res.active
          /\ login' = Moved(r, EmptyBag)
          /\ last' = AccountStep("Login", "AccountLogin", id, EmptyString,
                                 EmptyString, res.token,
                                 Preceding,
                                 res.err,
                                 IF res.err # Nil
                                 THEN <<LoginErrorResponse(res.err)>>
                                 ELSE <<LoginResponse(res.token)>>)
    /\ UNCHANGED <<rooms, profile, accounts, smsCodes>>

\* AccountHandler.Logout with the caller's ID in the context.
Logout(id) ==
    /\ LET res == AccountAccountLogout(activeUsers, id)
       IN /\ activeUsers' = res.active
          /\ last' = AccountStep("Logout", "AccountLogout", id, EmptyString, EmptyString,
                                 TokenOf(activeUsers, id),
                                 Preceding,
                                 res.err,
                                 (IF res.err # Nil THEN <<HTTPResponse(401, "")>> ELSE << >>)
                                     \o <<HTTPResponse(200, "")>>)
    /\ UNCHANGED <<rooms, profile, accounts, smsCodes, login>>

\* A lookup whose filter matches every session record.
FindByTokenNoFilter(active, token) ==
    IF active # {}
    THEN [id |-> (CHOOSE u \in active : TRUE).ID, err |-> Nil]
    ELSE [id |-> EmptyString, err |-> OtherError("no documents")]

\* activeUserColl.Find({"token": token}).One(record): the record with the
\* token, or the driver's error when there is none.
FindByToken(active, token) ==
    IF \E u \in active : u.Token = token
    THEN [id |-> (CHOOSE u \in active : u.Token = token).ID, err |-> Nil]
    ELSE [id |-> EmptyString, err |-> OtherError("no documents")]

\* AuthController.GetIDByToken: the ID of the found record, or "" and the
\* lookup's error.
GetIDByToken(token) ==
    /\ LET res == FindByToken(activeUsers, token)
       IN last' = AccountStep("GetIDByToken", "Find", res.id, EmptyString, EmptyString,
                              token,
                              Preceding,
                              res.err, << >>)
    /\ UNCHANGED <<rooms, profile, accounts, activeUsers, smsCodes, login>>

\* No account, no session, no code, no login in flight.
InitAccount ==
    /\ accounts = << >>
    /\ activeUsers = {}
    /\ smsCodes = << >>
    /\ login = EmptyBag
    /\ profile = EmptyBag

Init == InitRoom /\ InitAccount

\* The room lifecycle alone.
SpecRoom == Init /\ [][NextRoom]_vars

\* The stores as earlier requests may have left them: no account, or the
\* account of EarlierPhoneNumber, logged out or logged in.
InitEarlier ==
    /\ InitRoom
    /\ smsCodes = << >>
    /\ login = EmptyBag
    /\ profile = EmptyBag
    /\ \/ accounts = << >> /\ activeUsers = {}
       \/ \E id \in Users :
             /\ accounts = (id :> NewAccount(id, EarlierPhoneNumber))
             /\ \/ activeUsers = {}
                \/ \E t \in Tokens : activeUsers = {[ID |-> id, Token |-> t]}

NextAccount ==
    \/ \E p \in PhoneNumbers, c \in SMSCodes, o \in SendOutcomes : SendSMSCode(p, c, o)
    \/ Tick
    \/ \E p \in LoginPhoneNumbers, c \in SMSCodes : LoginValidate(p, c)
    \/ \E r \in BagToSet(login) : LoginGetAccount(r)
    \/ \E r \in BagToSet(login), id \in Users : LoginCreateAccount(r, id)
    \/ \E r \in BagToSet(login), t \in Tokens : LoginAccountLogin(r, t)
    \/ \E id \in Users : Logout(id)
    \/ \E t \in Tokens : GetIDByToken(t)

\* Authentication alone.
SpecAccount == InitEarlier /\ [][NextAccount]_vars

HasSession(active, id) == \E u \in active : u.ID = id

\* C6: an account has at most one session and no two sessions share a
\* token; a LoginBySMS answers 200 only when its AccountLogin found no
\* session of the account and stored one, with the token of the answer.
C6_OneSessionPerAccount ==
    /\ [](\A u, v \in activeUsers : u # v => u.ID # v.ID /\ u.Token # v.Token)
    /\ [][(last'.call = "AccountLogin" /\ last'.resp[1].status = 200) =>
            /\ ~HasSession(activeUsers, last'.user)
            /\ last'.resp[1].detail # EmptyString
            /\ activeUsers' = activeUsers \cup
                   {[ID |-> last'.user, Token |-> last'.resp[1].detail]}]_vars

\* Two logins of one account were at AccountLogin together: the first was
\* issued a token, the second, the step after it, was refused.
C6_Witness ==
    /\ last.call = "AccountLogin"
    /\ last.err = ServerError("UserLoggedin")
    /\ Len(last.before) = 1
    /\ last.before[1].op = "Login"
    /\ last.before[1].user = last.user
    /\ last.before[1].token # EmptyString
    /\ HasSession(activeUsers, last.user)
    /\ Cardinality(activeUsers) = 2

\* C7: AccountLogin for an account with a session leaves the sessions as
\* they are and is answered 401 AlreadyLoggedin; for an account without one
\* it is answered 200 with a token no session holds and stores the session;
\* a Logout leaves the account without a session.
C7_LoginAfterLogout ==
    /\ [][last'.call = "AccountLogin" =>
            IF HasSession(activeUsers, last'.user)
            THEN /\ activeUsers' = activeUsers
                 /\ last'.resp = <<HTTPResponse(401, "AlreadyLoggedin")>>
            ELSE /\ last'.resp = <<LoginResponse(last'.token)>>
                 /\ last'.token \in Tokens
                 /\ \A u \in activeUsers : u.Token # last'.token
                 /\ activeUsers' = activeUsers \cup
                        {[ID |-> last'.user, Token |-> last'.token]}]_vars
    /\ [][last'.op = "Logout" =>
            /\ ~HasSession(activeUsers', last'.user)
            /\ \A u \in activeUsers : u.ID # last'.user => u \in activeUsers']_vars

\* A login succeeded in the step after the Logout that deleted the session
\* of the same account.
C7_Witness ==
    /\ last.call = "AccountLogin"
    /\ last.err = Nil
    /\ last.resp = <<LoginResponse(last.token)>>
    /\ Len(last.before) = 1
    /\ last.before[1].op = "Logout"
    /\ last.before[1].user = last.user
    /\ last.before[1].token # EmptyString
    /\ [ID |-> last.user, Token |-> last.token] \in activeUsers

\* C8: no two accounts have the same phone number; an account is stored
\* under its ID, and a CreateAccount for a phone number that has an account
\* stores nothing.
C8_OneAccountPerPhone ==
    /\ [](\A a, b \in DOMAIN accounts :
            accounts[a].PhoneNumber = accounts[b].PhoneNumber => a = b)
    /\ [](\A a \in DOMAIN accounts : accounts[a].ID = a)
    /\ [][(last'.call = "CreateAccount" /\ AccountOfPhone(accounts, last'.phone) # {}) =>
            accounts' = accounts /\ last'.err # Nil]_vars

\* Two first logins of one phone number both found no account; the second
\* CreateAccount, with an ID no account has, was refused.
C8_Witness ==
    /\ last.call = "CreateAccount"
    /\ last.err # Nil
    /\ last.user \notin DOMAIN accounts
    /\ Cardinality(AccountOfPhone(accounts, last.phone)) = 1

\* C9: a validation succeeds only for the stored, unused and unexpired code
\* and leaves no code of the phone number valid; a failed validation is
\* answered 401 WrongSMSCode and changes neither codes, accounts, sessions
\* nor the logins in flight; a code becomes valid only by a send to its
\* phone number that stored it.
C9_CodeConsumedOnce ==
    /\ [][last'.call = "Validate" =>
            IF CodeValid(smsCodes, last'.phone, last'.code)
            THEN /\ last'.err = Nil
                 /\ \A c \in SMSCodes : ~CodeValid(smsCodes', last'.phone, c)
            ELSE /\ last'.err = ServerError("InvalidCode")
                 /\ last'.resp = <<HTTPResponse(401, "WrongSMSCode")>>
                 /\ UNCHANGED accountVars]_vars
    /\ [][\A p \in PhoneNumbers, c \in SMSCodes :
            (~CodeValid(smsCodes, p, c) /\ CodeValid(smsCodes', p, c)) =>
                (last'.call = "Send" /\ last'.phone = p /\ last'.code = c)]_vars

\* Two logins presented the same code: one passed the validation and is
\* still in flight, the other was refused although the code is the stored
\* one and has not expired.
C9_Witness ==
    /\ last.call = "Validate"
    /\ last.err = ServerError("InvalidCode")
    /\ last.phone \in DOMAIN smsCodes
    /\ smsCodes[last.phone].Code = last.code
    /\ smsCodes[last.phone].Used
    /\ smsCodes[last.phone].Age < CodeTTL
    /\ BagIn(Request("GetAccountByPhoneNumber", last.phone, EmptyString), login)
    /\ accounts = << >>
    /\ activeUsers = {}

\* C10: unless the storage or the gateway fails, a send to a well-formed
\* phone number inside the resend window is answered 429 SMSSendTooFrequent
\* and leaves the stored codes unchanged; outside the window it is answered
\* 200 and stores the new code, unused, as the only code of the phone number
\* that validates.
C10_ResendWindow ==
    [][(/\ last'.op = "SendSMSCode" /\ validatePhoneNumber(last'.phone)
        /\ last'.err \notin {StorageFailure, GatewayFailure}) =>
          IF InResendWindow(smsCodes, last'.phone)
          THEN /\ smsCodes' = smsCodes
               /\ last'.resp = <<HTTPResponse(429, "SMSSendTooFrequent")>>
          ELSE /\ last'.resp = <<HTTPResponse(200, "")>>
               /\ CodeValid(smsCodes', last'.phone, last'.code)
               /\ \A c \in SMSCodes :
                     CodeValid(smsCodes', last'.phone, c) => c = last'.code
               /\ \A p \in DOMAIN smsCodes :
                     p # last'.phone => smsCodes'[p] = smsCodes[p]]_vars

\* A send after the window replaced a code that was still unused and
\* unexpired; the replaced code no longer validates.
C10_Witness ==
    /\ last.call = "Send"
    /\ last.err = Nil
    /\ Len(last.before) = 1
    /\ ~last.before[1].Used
    /\ last.before[1].Age >= ResendWindow
    /\ last.before[1].Age < CodeTTL
    /\ last.before[1].Code # last.code
    /\ ~CodeValid(smsCodes, last.phone, last.before[1].Code)
    /\ CodeValid(smsCodes, last.phone, last.code)

\* C11: GetIDByToken returns account ID a exactly when a session with the
\* token and ID a exists, fails with an empty ID when no session has the
\* token, and changes no collection and no request in flight.
C11_ResolveTokenIsLookup ==
    [][last'.op = "GetIDByToken" =>
          /\ \A a \in Users :
                (last'.err = Nil /\ last'.user = a)
                    <=> [ID |-> a, Token |-> last'.token] \in activeUsers
          /\ (~\E u \in activeUsers : u.Token = last'.token)
                => (last'.err # Nil /\ last'.user = EmptyString)
          /\ UNCHANGED <<rooms, profile, accounts, activeUsers, smsCodes, login>>]_vars

\* A token was not resolved in the step after the Logout that deleted its
\* session, while the session of another account is still there.
C11_Witness ==
    /\ last.op = "GetIDByToken"
    /\ last.err # Nil
    /\ Len(last.before) = 1
    /\ last.before[1].op = "Logout"
    /\ last.before[1].token = last.token
    /\ last.before[1].user \in DOMAIN accounts
    /\ activeUsers # {}

\* C16: a Logout is answered 200 without an error, deletes the session of
\* its account and no other session, changes nothing else, and changes
\* nothing at all when the account has no session.
C16_LogoutIdempotent ==
    [][last'.op = "Logout" =>
          /\ last'.err = Nil
          /\ last'.resp = <<HTTPResponse(200, "")>>
          /\ activeUsers' = {u \in activeUsers : u.ID # last'.user}
          /\ ~HasSession(activeUsers, last'.user) => activeUsers' = activeUsers
          /\ UNCHANGED <<rooms, profile, accounts, smsCodes, login>>]_vars

\* A second Logout of an account, in the step after the one that deleted
\* its session: it found no session, and another account's session is
\* still there.
C16_Witness ==
    /\ last.op = "Logout"
    /\ last.token = EmptyString
    /\ last.resp = <<HTTPResponse(200, "")>>
    /\ Len(last.before) = 1
    /\ last.before[1].op = "Logout"
    /\ last.before[1].user = last.user
    /\ last.before[1].token # EmptyString
    /\ \E u \in activeUsers : u.ID # last.user

\* The transport status of each internal code (RoomNoExist is
\* ServerErrorRoomNotFound in the code, AlreadyLoggedIn ServerErrorUserLoggedin).
StatusTable ==
    [c \in {"RoomNameUsed", "NoPermission", "RoomNotFound", "TooManyRooms",
            "TokenInvalid", "UserLoggedin", "NotLoggedIn",
            "InvalidRoomName", "InvalidPhoneNumber", "InvalidCode"} |->
        CASE c = "RoomNameUsed" -> 409
          [] c = "NoPermission" -> 403
          [] c = "RoomNotFound" -> 404
          [] c = "TooManyRooms" -> 503
          [] c \in {"TokenInvalid", "UserLoggedin", "NotLoggedIn"} -> 401
          [] OTHER -> 400]

\* C14: a step whose collaborator returned a ServerError of the table writes
\* the status the table fixes for its code, and a handler's own validation
\* error is written with the status of its code.
C14_StatusTable ==
    [][\A i \in 1..Len(last'.resp) :
          /\ (last'.err.type = "ServerError" /\ last'.err.Code \in DOMAIN StatusTable)
                => last'.resp[i].status = StatusTable[last'.err.Code]
          /\ last'.resp[i].code \in {"InvalidRoomName", "InvalidPhoneNumber"}
                => last'.resp[i].status = StatusTable[last'.resp[i].code]]_vars

(***************************************************************************)
(* UpdateProfile.                                                          *)
(***************************************************************************)
\* The values of the fields nickname and gender of a request body; "" is a
\* field the request does not set.
Nicknames == {EmptyString, <<"n", "1">>, <<"n", "2">>}

Genders == {EmptyString, <<"m">>, <<"f">>}

\* AccountInterface.GetAccountByID.
AccountGetAccountByID(accs, id) ==
    IF id \in DOMAIN accs
    THEN [err |-> Nil, account |-> accs[id]]
    ELSE [err |-> OtherError("not found"), account |-> NewAccount(EmptyString, EmptyString)]

\* AccountInterface.UpdateAccount: stores the account it is given as the
\* record of id and returns it.
AccountUpdateAccount(accs, id, account) ==
    IF id \in DOMAIN accs
    THEN [err |-> Nil, account |-> account, accounts |-> [accs EXCEPT ![id] = account]]
    ELSE [err |-> OtherError("not found"), account |-> account, accounts |-> accs]

\* The fields of the request applied to the account the handler read.
ApplyProfile(account, nickname, gender) ==
    [account EXCEPT
        !.Nickname = IF nickname # EmptyString THEN nickname ELSE @,
        !.Gender = IF gender # EmptyString THEN gender ELSE @]

ProfileStep(call, id, nickname, gender, err, resp) ==
    [NoStep EXCEPT !.op = "UpdateProfile", !.call = call, !.user = id,
                   !.nickname = nickname, !.gender = gender,
                   !.err = err, !.resp = resp]

\* The body of a successful UpdateProfile: ID, Nickname and Gender of the
\* account UpdateAccount returned, in the field detail.
UpdateProfileResponse(account) ==
    [status |-> 200, code |-> "",
     detail |-> <<account.ID, account.Nickname, account.Gender>>]

\* AccountHandler.UpdateProfile, first call: GetAccountByID, then the fields
\* of the body are applied to the account it returned.  At most MaxRequests
\* requests are in flight together.
UpdateProfileGetAccount(id, nickname, gender) ==
    /\ LET res == AccountGetAccountByID(accounts, id)
       IN IF res.err # Nil \/ (res.account.ID # EmptyString /\ res.account.ID # id)
          THEN /\ profile' = profile
               /\ last' = ProfileStep("GetAccountByID", id, nickname, gender, res.err,
                                      <<HTTPResponse(404, "NoSuchUser")>>)
          ELSE /\ BagCardinality(profile) < MaxRequests
               /\ profile' = profile (+) SetToBag({[id |-> id, nickname |-> nickname,
                                                    gender |-> gender,
                                                    account |-> ApplyProfile(res.account, nickname, gender)]})
               /\ last' = ProfileStep("GetAccountByID", id, nickname, gender, Nil, << >>)
    /\ UNCHANGED <<rooms, accounts, activeUsers, smsCodes, login>>

\* AccountHandler.UpdateProfile, second call: UpdateAccount with the local
\* account, then the response.
UpdateProfileUpdateAccount(r) ==
    /\ BagIn(r, profile)
    /\ LET res == AccountUpdateAccount(accounts, r.id, r.account)
       IN /\ accounts' = res.accounts
          /\ profile' = profile (-) SetToBag({r})
          /\ last' = ProfileStep("UpdateAccount", r.id, r.nickname, r.gender, res.err,
                                 IF res.err # Nil
                                 THEN <<[status |-> 500, code |-> "Internal",
                                         detail |-> res.err.detail]>>
                                 ELSE <<UpdateProfileResponse(res.account)>>)
    /\ UNCHANGED <<rooms, activeUsers, smsCodes, login>>

NextProfile ==
    \/ \E id \in Users, n \in Nicknames, g \in Genders : UpdateProfileGetAccount(id, n, g)
    \/ \E r \in BagToSet(profile) : UpdateProfileUpdateAccount(r)

\* UpdateProfile alone, on the accounts earlier requests left.
SpecProfile == InitEarlier /\ [][NextProfile]_vars

\* C17: the UpdateAccount step of an UpdateProfile sets Nickname and Gender
\* of the caller's account to the request's non-empty fields, keeps the
\* stored value of a field the request leaves empty, keeps ID and
\* PhoneNumber, and changes no other account; an UpdateProfile for an absent
\* account is answered NoSuchUser and changes no account.
C17_UpdateProfileFrame ==
    /\ [][(last'.call = "UpdateAccount" /\ last'.err = Nil) =>
            /\ DOMAIN accounts' = DOMAIN accounts
            /\ \A a \in DOMAIN accounts :
                  accounts'[a] =
                      IF a = last'.user
                      THEN ApplyProfile(accounts[a], last'.nickname, last'.gender)
                      ELSE accounts[a]]_vars
    /\ [][(last'.op = "UpdateProfile" /\ last'.user \notin DOMAIN accounts) =>
            /\ last'.resp = <<HTTPResponse(404, "NoSuchUser")>>
            /\ accounts' = accounts]_vars

(***************************************************************************)
(* SendSMSCode alone, over every form of phone_number.                     *)
(***************************************************************************)
NextSend ==
    \/ \E p \in SendPhoneNumbers, c \in SMSCodes, o \in SendOutcomes : SendSMSCode(p, c, o)
    \/ Tick

SpecSend == Init /\ [][NextSend]_vars

\* An 11-digit number: 1, a digit 3-9, nine digits, and nothing else.
ExactPhoneNumber(phoneNumber) ==
    /\ Len(phoneNumber) = 11
    /\ phoneNumber[1] = "1"
    /\ phoneNumber[2] \in Digits \ {"0", "1", "2"}
    /\ \A j \in 3..11 : phoneNumber[j] \in Digits

\* C13: a SendSMSCode whose phone_number is not exactly such an 11-digit
\* number is answered 400 InvalidPhoneNumber and stores no code.
C13_MalformedPhoneRejected ==
    [][(last'.op = "SendSMSCode" /\ ~ExactPhoneNumber(last'.phone)) =>
          /\ last'.resp = <<HTTPResponse(400, "InvalidPhoneNumber")>>
          /\ smsCodes' = smsCodes]_vars

\* C15: a SendSMSCode whose collaborator returns an error that is not a
\* ServerError is answered 500 with the generic internal error, whatever the
\* error's detail.
C15_UnclassifiedErrorOpaque ==
    [][(last'.op = "SendSMSCode" /\ last'.err.type = "error") =>
          last'.resp = <<HTTPResponse(500, "Internal")>>]_vars

Next == NextRoom \/ NextAccount \/ NextSend \/ NextProfile

Spec == Init /\ [][Next]_vars

====
